---- MODULE Spec2Model ----
(***************************************************************************)
(* A model of the Telugu spell checker (src/spell_checker.py).             *)
(*                                                                         *)
(* Characters are Unicode code points (naturals); words and texts are      *)
(* sequences of code points.  A frequency model (collections.Counter) is   *)
(* a function from words to counts.  A Python tuple (c, f) is <<c, f>>,    *)
(* a list is a sequence, a dict a function, a set a set.                   *)
(***************************************************************************)
EXTENDS Integers, Sequences, FiniteSets, TLC

VARIABLES
    disk,             \* the model file at model_path: absent, corrupt or a JSON object
    hashseed,         \* the process's str hash seed, as what it decides: for each word,
                      \* the order in which get_candidates iterates its candidate set
    status,           \* "start" before SpellChecker(...), then "ready" or "aborted"
    WORDS,            \* self.WORDS
    TOTAL_WORDS,      \* self.TOTAL_WORDS
    source_document,  \* self.source_document
    candidates_map,   \* self.candidates_map
    call,             \* the last call made: [op, arg]
    ret,              \* what the last call returned
    dropped           \* history: the last correct_text call found a candidates_map
                      \* holding a key that its own text does not produce

vars == <<disk, hashseed, status, WORDS, TOTAL_WORDS, source_document,
          candidates_map, call, ret, dropped>>

(***************************************************************************)
(* Bounds of the model.                                                    *)
(***************************************************************************)
MaxCount == 2      \* counts stored in a model file range over 1..MaxCount
MaxEditLen == 3    \* words given to edits1
MaxWordLen == 2    \* words given to get_candidates / correct_word
MaxTextLen == 2    \* texts given to correct_text

(***************************************************************************)
(* Characters.  The model's inputs are built from four code points:        *)
(*   3093  U+0C15 TELUGU LETTER KA       in TELUGU_ALPHABET, matches \w     *)
(*   3134  U+0C3E TELUGU VOWEL SIGN AA   in the block, not in the alphabet, *)
(*                                       matches \W                         *)
(*   32    U+0020 SPACE                  matches \W                         *)
(*   49    U+0031 DIGIT ONE              matches \w, outside the block      *)
(***************************************************************************)
TeluguChars == {3093, 3134}
TextChars == TeluguChars \cup {32, 49}

TELUGU_ALPHABET ==
    << 3077, 3078, 3079, 3080, 3081, 3082, 3083, 3168, 3086, 3087, 3088, 3090,
       3091, 3092, 3074, 3075, 3093, 3094, 3095, 3096, 3097, 3098, 3099, 3100,
       3101, 3102, 3103, 3104, 3105, 3106, 3107, 3108, 3109, 3110, 3111, 3112,
       3114, 3115, 3116, 3117, 3118, 3119, 3120, 3122, 3125, 3126, 3127, 3128,
       3129, 3123, 3093, 3149, 3127, 3121 >>

\* [ఀ-౿]
IsTelugu(c) == c \in 3072..3199

\* \w of Python's re on str, for ASCII and the Telugu block: alphanumerics and "_"
IsWordChar(c) ==
    \/ c \in 48..57 \/ c \in 65..90 \/ c = 95 \/ c \in 97..122
    \/ c \in 3077..3084 \/ c \in 3086..3088 \/ c \in 3090..3112
    \/ c \in 3114..3129 \/ c = 3133 \/ c \in 3160..3162 \/ c = 3165
    \/ c \in 3168..3169 \/ c \in 3174..3183 \/ c \in 3192..3198

(***************************************************************************)
(* Sequence helpers.                                                       *)
(***************************************************************************)
Range(s) == {s[i] : i \in DOMAIN s}

RemoveAt(s, k) == SubSeq(s, 1, k - 1) \o SubSeq(s, k + 1, Len(s))

RECURSIVE join(_)
\* "".join(parts)
join(parts) == IF parts = <<>> THEN <<>> ELSE Head(parts) \o join(Tail(parts))

SeqsUpTo(S, n) == UNION {[1..k -> S] : k \in 0..n}

(***************************************************************************)
(* Inputs.                                                                 *)
(***************************************************************************)
EditWords == SeqsUpTo(TeluguChars, MaxEditLen)
Words == SeqsUpTo(TeluguChars, MaxWordLen)
Texts == SeqsUpTo(TextChars, MaxTextLen)

\* the vocabulary of the model files: ka and ka+aa
Vocab == {<<3093>>, <<3093, 3134>>}

(***************************************************************************)
(* edits1 / edits2                                                         *)
(***************************************************************************)
\* splits[i] = (word[:i], word[i:]): L and R of the split at i
SplitL(word, i) == SubSeq(word, 1, i)
SplitR(word, i) == SubSeq(word, i + 1, Len(word))

\* [L + R[1:] for L, R in splits if R]
deletes(word) ==
    [k \in 1..Len(word) |-> SplitL(word, k - 1) \o Tail(SplitR(word, k - 1))]

\* [L + R[1] + R[0] + R[2:] for L, R in splits if len(R) > 1]
transposes(word) ==
    IF Len(word) < 2 THEN <<>>
    ELSE [k \in 1..(Len(word) - 1) |->
            SplitL(word, k - 1) \o <<word[k + 1], word[k]>> \o SplitR(word, k + 1)]

\* [L + c + R[1:] for L, R in splits if R for c in TELUGU_ALPHABET]
replaces(word) ==
    LET A == Len(TELUGU_ALPHABET) IN
    [j \in 1..(Len(word) * A) |->
        LET i == (j - 1) \div A
            c == TELUGU_ALPHABET[((j - 1) % A) + 1]
        IN  SplitL(word, i) \o <<c>> \o Tail(SplitR(word, i))]

\* inserts with range(len(word)) for the split positions: nothing is inserted
\* after the last character
inserts_before_last(word) ==
    LET A == Len(TELUGU_ALPHABET) IN
    [j \in 1..(Len(word) * A) |->
        LET i == (j - 1) \div A
            c == TELUGU_ALPHABET[((j - 1) % A) + 1]
        IN  SplitL(word, i) \o <<c>> \o SplitR(word, i)]

\* [L + c + R for L, R in splits for c in TELUGU_ALPHABET]
inserts(word) ==
    LET A == Len(TELUGU_ALPHABET) IN
    [j \in 1..((Len(word) + 1) * A) |->
        LET i == (j - 1) \div A
            c == TELUGU_ALPHABET[((j - 1) % A) + 1]
        IN  SplitL(word, i) \o <<c>> \o SplitR(word, i)]

\* set(deletes + transposes + replaces + inserts)
edits1(word) ==
    Range(deletes(word) \o transposes(word) \o replaces(word) \o inserts(word))

\* The strings the generator (e2 for e1 in edits1(word) for e2 in edits1(e1))
\* yields, as a set given by its membership test.
edits2(word) ==
    {e2 \in Seq(Nat) : \E e1 \in edits1(word) : e2 \in edits1(e1)}

\* f with its values evaluated once
Tabulated(f) == f @@ <<>>

MaxLen == IF MaxWordLen > MaxTextLen THEN MaxWordLen ELSE MaxTextLen

\* the words correct_word can be given: the runs of block characters of a text,
\* and the words given to it directly
TeluguWords == SeqsUpTo(TeluguChars, MaxLen)

\* Whether the generator edits2(word) yields w, evaluated once for each word and
\* each vocabulary word of the model
edits2_yields ==
    Tabulated([word \in TeluguWords |->
        Tabulated([w \in Vocab |-> w \in edits2(word)])])

(***************************************************************************)
(* The checker object.  `self` is [WORDS, hashseed]: the Counter and the   *)
(* set iteration orders of the process the object lives in.                *)
(***************************************************************************)
\* w in self.WORDS
InWORDS(self, w) == w \in DOMAIN self.WORDS

\* self.WORDS.get(c, 0)
WORDS_get(self, c) == IF c \in DOMAIN self.WORDS THEN self.WORDS[c] ELSE 0

\* known without its membership test: every word of the model
known_unfiltered(self, words) == DOMAIN self.WORDS

\* set(w for w in words if w in self.WORDS): the members of `words` that are keys
\* of the model (enumerated from the model's side; `words` may be a generator)
known(self, words) == {w \in DOMAIN self.WORDS : w \in words}

\* self.known(set(edits2(word)))
known_edits2(self, word) == {w \in DOMAIN self.WORDS : edits2_yields[word][w]}

RECURSIVE LexLess(_, _)
LexLess(a, b) ==
    IF a = <<>> THEN b # <<>>
    ELSE IF b = <<>> THEN FALSE
    ELSE IF a[1] # b[1] THEN a[1] < b[1]
    ELSE LexLess(Tail(a), Tail(b))

RECURSIVE Ascending(_)
Ascending(S) ==
    IF S = {} THEN <<>>
    ELSE LET m == CHOOSE x \in S : \A y \in S \ {x} : LexLess(x, y)
         IN  <<m>> \o Ascending(S \ {m})

RECURSIVE Permute(_, _)
Permute(s, n) ==
    IF s = <<>> THEN <<>>
    ELSE LET k == (n % Len(s)) + 1
         IN  <<s[k]>> \o Permute(RemoveAt(s, k), n \div Len(s))

\* "for c in candidates" in get_candidates(word).  The order in which the set is
\* iterated is fixed by its elements' hashes (the process's hash seed) and by the
\* order in which the set was filled (known([word]), then update with
\* known(edits1(word)), itself built by iterating the set edits1(word)): within a
\* process it is the same each time the word is looked up, and it may be any
\* order, another for another word with the same candidates.  self.hashseed[word]
\* numbers the permutation taken.
set_iter(self, word, S) ==
    IF word \in DOMAIN self.hashseed
    THEN Permute(Ascending(S), self.hashseed[word])
    ELSE Ascending(S)

RECURSIVE InsertByFreq(_, _)
\* place `item` after every item whose frequency is >= its own (stable, reverse)
InsertByFreq(sorted, item) ==
    IF sorted = <<>> THEN <<item>>
    ELSE IF Head(sorted)[2] >= item[2]
         THEN <<Head(sorted)>> \o InsertByFreq(Tail(sorted), item)
         ELSE <<item>> \o sorted

RECURSIVE sorted_ascending(_)
\* sorted(list, key=lambda item: item[1]): reverse=True left out
sorted_ascending(list) ==
    IF list = <<>> THEN <<>>
    ELSE LET rest == sorted_ascending(SubSeq(list, 1, Len(list) - 1))
             x == list[Len(list)]
         IN  SelectSeq(rest, LAMBDA y : y[2] <= x[2]) \o <<x>>
                 \o SelectSeq(rest, LAMBDA y : y[2] > x[2])

RECURSIVE sorted_by_freq(_)
\* sorted(list, key=lambda item: item[1], reverse=True)
sorted_by_freq(list) ==
    IF list = <<>> THEN <<>>
    ELSE InsertByFreq(sorted_by_freq(SubSeq(list, 1, Len(list) - 1)), list[Len(list)])

\* the edit-distance-2 tier added to the others instead of standing in for them
candidate_set_additive(self, word) ==
    known(self, {word}) \cup known(self, edits1(word)) \cup known_edits2(self, word)

\* the candidate set built by get_candidates before it ranks
candidate_set(self, word) ==
    LET tier01 == known(self, {word}) \cup known(self, edits1(word))
    IN  IF tier01 = {} /\ ~InWORDS(self, word)
        THEN tier01 \cup known_edits2(self, word)
        ELSE tier01

get_candidates(self, word) ==
    LET candidates == candidate_set(self, word)
    IN  IF candidates = {}
        THEN << <<word, 0>> >>
        ELSE LET order == set_iter(self, word, candidates)
             IN  sorted_by_freq([i \in DOMAIN order |->
                                    <<order[i], WORDS_get(self, order[i])>>])

\* returns (best_correction, ranked_candidates)
correct_word(self, word) ==
    LET ranked_candidates == get_candidates(self, word)
    IN  <<ranked_candidates[1][1], ranked_candidates>>

(***************************************************************************)
(* re.findall(r'([\u0C00-\u0C7F]+|\W+)', text)                             *)
(***************************************************************************)
RECURSIVE TeluguRun(_, _)
\* the last index of the longest run of block characters that starts at i
TeluguRun(text, i) ==
    IF i < Len(text) /\ IsTelugu(text[i + 1]) THEN TeluguRun(text, i + 1) ELSE i

RECURSIVE NonWordRun(_, _)
\* the last index of the longest run of \W characters that starts at i
NonWordRun(text, i) ==
    IF i < Len(text) /\ ~IsWordChar(text[i + 1]) THEN NonWordRun(text, i + 1) ELSE i

RECURSIVE scan(_, _)
\* the matches found from position i on: at each position the first alternative
\* is tried, then the second, else the scan moves one character on
scan(text, i) ==
    IF i > Len(text) THEN <<>>
    ELSE IF IsTelugu(text[i])
         THEN <<SubSeq(text, i, TeluguRun(text, i))>> \o scan(text, TeluguRun(text, i) + 1)
    ELSE IF ~IsWordChar(text[i])
         THEN <<SubSeq(text, i, NonWordRun(text, i))>> \o scan(text, NonWordRun(text, i) + 1)
    ELSE scan(text, i + 1)

findall(text) == scan(text, 1)

\* re.match(r'[\u0C00-\u0C7F]+', part) on a non-empty part
match_telugu(part) == IsTelugu(part[1])

\* d[k] = v
dict_set(d, k, v) == [x \in (DOMAIN d) \cup {k} |-> IF x = k THEN v ELSE d[x]]

RECURSIVE correct_loop_record_all(_, _, _, _, _)
\* the loop recording every word part, corrected or not
correct_loop_record_all(self, parts, k, corrected_parts, cmap) ==
    IF k > Len(parts)
    THEN [corrected_sentence |-> join(corrected_parts), candidates_map |-> cmap]
    ELSE LET part == parts[k] IN
         IF match_telugu(part)
         THEN LET cw == correct_word(self, part)
              IN  correct_loop_record_all(self, parts, k + 1,
                      Append(corrected_parts, cw[1]),
                      dict_set(cmap, part, [i \in DOMAIN cw[2] |-> cw[2][i][1]]))
         ELSE correct_loop_record_all(self, parts, k + 1,
                  Append(corrected_parts, part), cmap)

RECURSIVE correct_loop(_, _, _, _, _)
\* the for loop of correct_text from parts[k] on
correct_loop(self, parts, k, corrected_parts, cmap) ==
    IF k > Len(parts)
    THEN [corrected_sentence |-> join(corrected_parts), candidates_map |-> cmap]
    ELSE LET part == parts[k] IN
         IF match_telugu(part)
         THEN LET cw == correct_word(self, part)
                  best_correction == cw[1]
                  candidates_with_freq == cw[2]
              IN  IF best_correction # part
                  THEN correct_loop(self, parts, k + 1,
                           Append(corrected_parts, best_correction),
                           dict_set(cmap, part,
                               [i \in DOMAIN candidates_with_freq |->
                                   candidates_with_freq[i][1]]))
                  ELSE correct_loop(self, parts, k + 1, Append(corrected_parts, part), cmap)
         ELSE correct_loop(self, parts, k + 1, Append(corrected_parts, part), cmap)

\* the result of correct_text: the corrected sentence and self.candidates_map
correct_text(self, text) == correct_loop(self, findall(text), 1, <<>>, <<>>)

\* the JSON objects build_model.py can write over a vocabulary: word -> count
Models(vocab) == UNION {[S -> 1..MaxCount] : S \in SUBSET vocab}

Disks(vocab) ==
    {[kind |-> "absent", data |-> <<>>], [kind |-> "corrupt", data |-> <<>>]}
        \cup {[kind |-> "json", data |-> m] : m \in Models(vocab)}

RECURSIVE Factorial(_)
Factorial(n) == IF n <= 1 THEN 1 ELSE n * Factorial(n - 1)

RECURSIVE Orders(_, _)
\* the functions giving each word w of S one of the n[w] orders of its set
Orders(n, S) ==
    IF S = {} THEN {<<>>}
    ELSE LET w == CHOOSE x \in S : TRUE
         IN  {h @@ (w :> i) : h \in Orders(n, S \ {w}), i \in 0..(n[w] - 1)}

\* what the hash seed can decide for a checker loaded with model m and asked
\* about `words`: any order for each candidate set of two or more members
\* (a set of fewer has one order)
HashSeeds(m, words) ==
    LET size == Tabulated([w \in words |->
                    Cardinality(candidate_set([WORDS |-> m], w))])
    IN  Orders([w \in words |-> Factorial(size[w])], {w \in words : size[w] >= 2})

None == << -1 >>
NoCall == [op |-> "none", arg |-> <<>>]
NoRet == [best |-> <<>>, ranked |-> <<>>, corrected |-> <<>>, cmap |-> <<>>, edits |-> {}]

Self == [WORDS |-> WORDS, hashseed |-> hashseed]

RECURSIVE SumValues(_, _)
\* sum(self.WORDS.values())
SumValues(f, S) ==
    IF S = {} THEN 0
    ELSE LET k == CHOOSE x \in S : TRUE IN f[k] + SumValues(f, S \ {k})

(***************************************************************************)
(* The state machine.                                                      *)
(***************************************************************************)
Init ==
    /\ disk \in Disks(Vocab)
    /\ hashseed \in HashSeeds(disk.data, TeluguWords)
    /\ status = "start"
    /\ WORDS = <<>>
    /\ TOTAL_WORDS = 0
    /\ source_document = None
    /\ candidates_map = <<>>
    /\ call = NoCall
    /\ ret = NoRet
    /\ dropped = FALSE


\* SpellChecker(model_path), the file holding a JSON object
ConstructLoaded ==
    /\ status = "start"
    /\ disk.kind = "json"
    /\ WORDS' = disk.data
    /\ TOTAL_WORDS' = SumValues(disk.data, DOMAIN disk.data)
    /\ source_document' = None
    /\ candidates_map' = <<>>
    /\ status' = "ready"
    /\ call' = [op |-> "SpellChecker", arg |-> <<>>]
    /\ ret' = NoRet
    /\ UNCHANGED <<disk, hashseed, dropped>>

\* SpellChecker(model_path), no file: open raises FileNotFoundError, caught
ConstructAbsent ==
    /\ status = "start"
    /\ disk.kind = "absent"
    /\ WORDS' = <<>>
    /\ TOTAL_WORDS' = 0
    /\ source_document' = None
    /\ candidates_map' = <<>>
    /\ status' = "ready"
    /\ call' = [op |-> "SpellChecker", arg |-> <<>>]
    /\ ret' = NoRet
    /\ UNCHANGED <<disk, hashseed, dropped>>

\* SpellChecker(model_path), the file not JSON: json.load raises JSONDecodeError,
\* which the except clause does not name; the constructor raises
ConstructCorrupt ==
    /\ status = "start"
    /\ disk.kind = "corrupt"
    /\ status' = "aborted"
    /\ call' = [op |-> "SpellChecker", arg |-> <<>>]
    /\ ret' = NoRet
    /\ UNCHANGED <<disk, hashseed, WORDS, TOTAL_WORDS, source_document,
                   candidates_map, dropped>>

Construct == ConstructLoaded \/ ConstructAbsent \/ ConstructCorrupt

\* edits1, get_candidates and correct_word tabulated over the bounded inputs
edits1_table == Tabulated([word \in EditWords |-> edits1(word)])

get_candidates_table ==
    Tabulated([m \in Models(Vocab) |->
        Tabulated([seed \in HashSeeds(m, TeluguWords) |->
            Tabulated([word \in Words |->
                get_candidates([WORDS |-> m, hashseed |-> seed], word)])])])

correct_word_table ==
    Tabulated([m \in Models(Vocab) |->
        Tabulated([seed \in HashSeeds(m, TeluguWords) |->
            Tabulated([word \in Words |->
                correct_word([WORDS |-> m, hashseed |-> seed], word)])])])

\* edits1(word): a function of the module, called with or without a checker,
\* before or after any other call; it touches no state
Edits1(word) ==
    /\ call' = [op |-> "edits1", arg |-> word]
    /\ ret' = [NoRet EXCEPT !.edits = edits1_table[word]]
    /\ UNCHANGED <<disk, hashseed, status, WORDS, TOTAL_WORDS, source_document,
                   candidates_map, dropped>>

\* checker.get_candidates(word), at any time once the checker is built
GetCandidates(word) ==
    /\ status = "ready"
    /\ call' = [op |-> "get_candidates", arg |-> word]
    /\ ret' = [NoRet EXCEPT !.ranked = get_candidates_table[WORDS][hashseed][word]]
    /\ UNCHANGED <<disk, hashseed, status, WORDS, TOTAL_WORDS, source_document,
                   candidates_map, dropped>>

\* checker.correct_word(word), at any time once the checker is built
CorrectWord(word) ==
    /\ status = "ready"
    /\ call' = [op |-> "correct_word", arg |-> word]
    /\ LET r == correct_word_table[WORDS][hashseed][word]
       IN  ret' = [NoRet EXCEPT !.best = r[1], !.ranked = r[2]]
    /\ UNCHANGED <<disk, hashseed, status, WORDS, TOTAL_WORDS, source_document,
                   candidates_map, dropped>>

\* correct_text tabulated over the bounded inputs
correct_text_table ==
    Tabulated([m \in Models(Vocab) |->
        Tabulated([seed \in HashSeeds(m, TeluguWords) |->
            Tabulated([text \in Texts |->
                correct_text([WORDS |-> m, hashseed |-> seed], text)])])])

\* correct_text without "self.candidates_map = {}": the entries of this text are
\* added to those already stored
CorrectText_keep(text) ==
    /\ status = "ready"
    /\ LET r == correct_text_table[WORDS][hashseed][text]
           kept == [w \in (DOMAIN candidates_map) \cup (DOMAIN r.candidates_map) |->
                       IF w \in DOMAIN r.candidates_map
                       THEN r.candidates_map[w] ELSE candidates_map[w]]
       IN  /\ source_document' = text
           /\ candidates_map' = kept
           /\ ret' = [NoRet EXCEPT !.corrected = r.corrected_sentence, !.cmap = kept]
           /\ dropped' = (DOMAIN candidates_map \ DOMAIN r.candidates_map # {})
    /\ call' = [op |-> "correct_text", arg |-> text]
    /\ UNCHANGED <<disk, hashseed, status, WORDS, TOTAL_WORDS>>

CorrectText(text) ==
    /\ status = "ready"
    /\ LET r == correct_text_table[WORDS][hashseed][text]
       IN  /\ source_document' = text
           /\ candidates_map' = r.candidates_map
           /\ ret' = [NoRet EXCEPT !.corrected = r.corrected_sentence,
                                   !.cmap = r.candidates_map]
           /\ dropped' = (DOMAIN candidates_map \ DOMAIN r.candidates_map # {})
    /\ call' = [op |-> "correct_text", arg |-> text]
    /\ UNCHANGED <<disk, hashseed, status, WORDS, TOTAL_WORDS>>

Next ==
    \/ Construct
    \/ \E word \in EditWords : Edits1(word)
    \/ \E word \in Words : GetCandidates(word)
    \/ \E word \in Words : CorrectWord(word)
    \/ \E text \in Texts : CorrectText(text)

\* the constructor and the word-level calls
NextWord ==
    \/ Construct
    \/ \E word \in EditWords : Edits1(word)
    \/ \E word \in Words : GetCandidates(word)
    \/ \E word \in Words : CorrectWord(word)

\* the constructor and correct_text
NextText ==
    \/ Construct
    \/ \E text \in Texts : CorrectText(text)

\* a process making any calls in any order
Spec == Init /\ [][Next]_vars

\* a process making word-level calls only
SpecWord == Init /\ [][NextWord]_vars

\* a process calling correct_text only
SpecText == Init /\ [][NextText]_vars

(***************************************************************************)
(* Properties.                                                             *)
(***************************************************************************)
AlphabetSet == Range(TELUGU_ALPHABET)

\* the model the constructor was given
LoadedModel == IF disk.kind = "json" THEN disk.data ELSE <<>>

\* some word of the model is the word itself or one edit away from it
HasTier01(word) ==
    word \in DOMAIN WORDS \/ \E w \in DOMAIN WORDS : w \in edits1(word)

\* no word of the model is the word, one edit or two edits away from it
NoKnownNeighbour(word) ==
    /\ ~HasTier01(word)
    /\ \A w \in DOMAIN WORDS : ~edits2_yields[word][w]

\* the characters of a text that lie outside the Telugu block, in order
NonTelugu(text) == SelectSeq(text, LAMBDA c : ~IsTelugu(c))

\* the word spans of a text: the parts the segmentation hands to correct_word
WordSpans(text) == {part \in Range(findall(text)) : match_telugu(part)}

\* C1: correct_word of a word that is a key of the model returns that word as
\* the best correction, whatever the frequencies of its known neighbours.
C1_KnownWordIsItsOwnBest ==
    (call.op = "correct_word" /\ call.arg \in DOMAIN WORDS) => ret.best = call.arg

\* C2: the spans correct_text splits a text into concatenate back to the text;
\* every character outside a word span is in the corrected text, unchanged and
\* in order; with no word changed the corrected text is the input.
C2_SegmentationIsLossless ==
    call.op = "correct_text" =>
        /\ join(findall(call.arg)) = call.arg
        /\ NonTelugu(ret.corrected) = NonTelugu(call.arg)
        /\ (ret.cmap = <<>> => ret.corrected = call.arg)

\* C3: constructing the checker from an absent or a corrupt model file never
\* aborts: the result is a usable checker with an empty model and total 0.
C3_LoadFailureGivesEmptyModel ==
    (status # "start" /\ disk.kind \in {"absent", "corrupt"}) =>
        (status = "ready" /\ WORDS = <<>> /\ TOTAL_WORDS = 0)

\* C4: in the list get_candidates returns the frequencies never increase from
\* one element to the next, and each is the model's count of its word.
C4_RankedByFrequency ==
    call.op = "get_candidates" =>
        \A i \in DOMAIN ret.ranked :
            /\ ret.ranked[i][2] =
                   (IF ret.ranked[i][1] \in DOMAIN WORDS THEN WORDS[ret.ranked[i][1]] ELSE 0)
            /\ (i < Len(ret.ranked) => ret.ranked[i][2] >= ret.ranked[i + 1][2])

C4_Witness ==
    /\ call.op = "get_candidates"
    /\ Len(ret.ranked) >= 2
    /\ ret.ranked[1][2] > ret.ranked[Len(ret.ranked)][2]

\* C5: when the word is known or has a known word one edit away, every word
\* get_candidates lists is the word itself or one edit away from it.
C5_TierPrecedence ==
    (call.op = "get_candidates" /\ HasTier01(call.arg)) =>
        \A i \in DOMAIN ret.ranked :
            ret.ranked[i][1] = call.arg \/ ret.ranked[i][1] \in edits1(call.arg)

\* a known word two edits away, and no nearer, is left out
C5_Witness ==
    /\ call.op = "get_candidates"
    /\ HasTier01(call.arg)
    /\ \E w \in DOMAIN WORDS :
           /\ w # call.arg
           /\ w \notin edits1(call.arg)
           /\ edits2_yields[call.arg][w]
           /\ \A i \in DOMAIN ret.ranked : ret.ranked[i][1] # w

\* C6: for a word that is not in the model and has no known word one or two
\* edits away, get_candidates returns [(word, 0)] and correct_word returns the
\* word itself as best.
C6_Fallback ==
    (call.op \in {"get_candidates", "correct_word"} /\ NoKnownNeighbour(call.arg)) =>
        /\ ret.ranked = << <<call.arg, 0>> >>
        /\ (call.op = "correct_word" => ret.best = call.arg)

C6_Witness ==
    /\ call.op = "correct_word"
    /\ WORDS # <<>>
    /\ NoKnownNeighbour(call.arg)
    /\ ret.best = call.arg

\* C7: the map correct_text returns has a key w exactly when w is a word span
\* of the text whose best correction is not w; its value lists the words of
\* get_candidates(w) in ranked order; the first of them stands for w in the
\* corrected text, and every other span is emitted as it is.
C7_MapHoldsExactlyTheCorrectedWords ==
    call.op = "correct_text" =>
        LET parts == findall(call.arg)
            emitted(part) ==
                IF match_telugu(part) /\ part \in DOMAIN ret.cmap
                THEN ret.cmap[part][1] ELSE part
        IN  /\ DOMAIN ret.cmap =
                   {w \in WordSpans(call.arg) : get_candidates(Self, w)[1][1] # w}
            /\ \A w \in DOMAIN ret.cmap :
                   ret.cmap[w] = [i \in DOMAIN get_candidates(Self, w) |->
                                     get_candidates(Self, w)[i][1]]
            /\ ret.corrected = join([k \in DOMAIN parts |-> emitted(parts[k])])

\* a text with a corrected word that has two candidates, next to a part that
\* is not a word and is emitted as it is
C7_Witness ==
    /\ call.op = "correct_text"
    /\ \E w \in DOMAIN ret.cmap : Len(ret.cmap[w]) >= 2 /\ ret.cmap[w][1] # w
    /\ \E part \in Range(findall(call.arg)) : ~match_telugu(part)
    /\ ret.corrected # call.arg

\* C8: edits1(word) is exactly the set of strings got from word by deleting
\* one character, swapping two adjacent characters, replacing one character by
\* an alphabet symbol or inserting an alphabet symbol at one of the n+1
\* positions; the empty word yields the single-symbol strings only; for n >= 2
\* the set has at most n + (n-1) + n*A + (n+1)*A members.
C8_Edits1IsExactlyOneEdit ==
    call.op = "edits1" =>
        LET word == call.arg
            n == Len(word)
            A == Cardinality(AlphabetSet)
            deletions == {RemoveAt(word, i) : i \in 1..n}
            transpositions ==
                {[word EXCEPT ![i] = word[i + 1], ![i + 1] = word[i]] : i \in 1..(n - 1)}
            replacements == {[word EXCEPT ![i] = c] : i \in 1..n, c \in AlphabetSet}
            insertions ==
                {[k \in 1..(n + 1) |->
                     IF k < i THEN word[k] ELSE IF k = i THEN c ELSE word[k - 1]] :
                     i \in 1..(n + 1), c \in AlphabetSet}
        IN  /\ ret.edits = deletions \cup transpositions \cup replacements \cup insertions
            /\ Cardinality(deletions) <= n
            /\ Cardinality(transpositions) <= (IF n < 2 THEN 0 ELSE n - 1)
            /\ \A e \in ret.edits : Range(e) \subseteq Range(word) \cup AlphabetSet
            /\ (n = 0 => ret.edits = {<<c>> : c \in AlphabetSet})
            /\ (n >= 2 => Cardinality(ret.edits) <= n + (n - 1) + n * A + (n + 1) * A)

\* a word of two different characters, one of them outside the alphabet
C8_Witness ==
    /\ call.op = "edits1"
    /\ Len(call.arg) >= 2
    /\ call.arg[1] # call.arg[2]
    /\ \E i \in DOMAIN call.arg : call.arg[i] \notin AlphabetSet
    /\ <<call.arg[2], call.arg[1]>> \o SubSeq(call.arg, 3, Len(call.arg)) \in ret.edits

\* C9: the list get_candidates returns is fixed by the word and the model: it
\* is the same whatever order the candidate set is iterated in.
C9_OrderIsDetermined ==
    call.op = "get_candidates" =>
        \A seed \in HashSeeds(WORDS, TeluguWords) :
            get_candidates([WORDS |-> WORDS, hashseed |-> seed], call.arg) = ret.ranked

\* C10: after any sequence of calls the stored session is that of the last
\* correct_text call: source_document is its text and candidates_map holds
\* exactly the entries that text produces (nothing before the first call); no
\* call changes the frequency model.
C10_SessionIsTheLastCall ==
    /\ status = "ready" =>
           /\ WORDS = LoadedModel
           /\ TOTAL_WORDS = SumValues(LoadedModel, DOMAIN LoadedModel)
           /\ candidates_map =
                  (IF source_document = None THEN <<>>
                   ELSE correct_text_table[WORDS][hashseed][source_document].candidates_map)
           /\ DOMAIN candidates_map \subseteq
                  (IF source_document = None THEN {} ELSE WordSpans(source_document))
    /\ call.op = "correct_text" =>
           /\ source_document = call.arg
           /\ ret.cmap = candidates_map

\* a call that found entries of an earlier text stored, and stores its own
C10_Witness ==
    /\ call.op = "correct_text"
    /\ dropped
    /\ candidates_map # <<>>

====
